---- MODULE Spec2Model ----
(***************************************************************************)
(* Circuit breaker (shared/circuit_breaker.py) and choreographed saga      *)
(* coordinator (services/orders/app/saga.py).                              *)
(*                                                                         *)
(* Both run on one asyncio event loop: a coroutine runs without            *)
(* interruption from one suspension point to the next.  Acquiring the      *)
(* breaker's asyncio.Lock never suspends, because no critical section      *)
(* contains an await and so the lock is always free when a coroutine       *)
(* reaches it; each critical section is therefore one atomic step.  The    *)
(* suspension points are the wrapped operation (breaker) and the broker    *)
(* publish (saga).                                                         *)
(***************************************************************************)
EXTENDS Integers, Sequences, FiniteSets

\* ------------------------------------------------------------- bounds
\* concurrent callers of one breaker, the last clock reading, and the largest
\* configuration values the initial states draw from
NCallers == 2
MaxTime == 4
MaxFailureThreshold == 2
MaxSuccessThreshold == 2
MaxRecoveryTimeout == 2

\* ------------------------------------------------------------- breaker
CLOSED == "closed"
OPEN == "open"
HALF_OPEN == "half_open"
CircuitState == {CLOSED, OPEN, HALF_OPEN}

\* self._opened_at is None until the breaker first opens
None == -1

Callers == 1..NCallers

VARIABLES
  failure_threshold, recovery_timeout, success_threshold,
  state, failure_count, success_count, opened_at,
  lock,         \* self._lock: 0 when free, else the caller that holds it
  now,          \* time.monotonic()
  pc,           \* per caller: "idle", or "running" while func is awaited
  admitted_in,  \* per caller: the breaker state its running call was let through in
  cb_event,     \* the last step of the breaker and what its caller observed
  fail_streak,  \* history: outcomes that were failures since the last success
  probe_streak  \* history: successes applied in HALF_OPEN since it was entered
                \* or since the last failure

cb_config == <<failure_threshold, recovery_timeout, success_threshold>>
cb_vars == <<failure_threshold, recovery_timeout, success_threshold,
             state, failure_count, success_count, opened_at, lock,
             now, pc, admitted_in, cb_event, fail_streak, probe_streak>>

VARIABLES
  saga_store,  \* _saga_store: the saga dicts, the k-th created under saga_id k
  published,   \* the messages the broker accepted on exchange "saga", in order;
               \* saga_id in an entry is history, not part of the message
  suspended,   \* the _compensate coroutines suspended in a publish: their locals
               \* (saga, the steps left to visit) and, as history, the length of
               \* the step log when they started and the routing keys they tried
  saga_event,  \* the last step of the coordinator and how its call ended
  calls        \* the create_saga and advance_saga calls that have changed the
               \* store in this behaviour; the model stops at MaxCalls

saga_vars == <<saga_store, published, suspended, saga_event, calls>>

VARIABLES
  _registry,  \* _registry: service name -> the CircuitBreaker stored under it
  instances,  \* history: the CircuitBreaker objects constructed so far
  reg_event,  \* the last get_breaker call and the object it returned
  gets        \* the get_breaker calls made; the model stops at MaxGets

reg_vars == <<_registry, instances, reg_event, gets>>

VARIABLES
  orders_db,       \* the rows of table "orders" that have been committed
  order_exchange,  \* the messages the broker accepted on exchange "orders", in order
  requests,        \* the create_order coroutines that are suspended: the order
                   \* they built and the await they are suspended in
  order_event,     \* the last step of the orders service and the response, if any
  order_seq        \* the create_order requests received; the model stops at MaxOrders

ord_vars == <<orders_db, order_exchange, requests, order_event, order_seq>>

CbEvent(op, c, invoked, raised) ==
  [op |-> op, caller |-> c, invoked |-> invoked, raised |-> raised]

CircuitBreaker_init ==
  /\ failure_threshold \in 1..MaxFailureThreshold
  /\ recovery_timeout \in 1..MaxRecoveryTimeout
  /\ success_threshold \in 1..MaxSuccessThreshold
  /\ state = CLOSED
  /\ failure_count = 0
  /\ success_count = 0
  /\ opened_at = None
  /\ lock = 0
  /\ now = 0
  /\ pc = [c \in Callers |-> "idle"]
  /\ admitted_in = [c \in Callers |-> "none"]
  /\ cb_event = CbEvent("init", 0, FALSE, "none")
  /\ fail_streak = 0
  /\ probe_streak = 0

\* elapsed = time.monotonic() - (self._opened_at or 0)
elapsed == now - (IF opened_at = None \/ opened_at = 0 THEN 0 ELSE opened_at)

\* a breaker that never lets a probe through once it is Open
Rejects_forever == state = OPEN

\* a breaker that lets the probe through one time unit before the cooldown ends
Rejects_early == state = OPEN /\ elapsed + 1 < recovery_timeout

\* the call is rejected: OPEN and still cooling down
Rejects == state = OPEN /\ elapsed < recovery_timeout

\* a breaker that opens again on a failure it records while it is Open
Trips_any(st, fc) == fc >= failure_threshold

\* a breaker that opens only once the count exceeds the threshold
Trips_late(st, fc) == st \in {CLOSED, HALF_OPEN} /\ fc > failure_threshold

\* the condition under which _on_failure opens the breaker, fc the new count
Trips(st, fc) == st \in {CLOSED, HALF_OPEN} /\ fc >= failure_threshold

\* a breaker that needs one success more than the threshold to close
Recovered_late(st, sc) == st = HALF_OPEN /\ sc > success_threshold

\* the condition under which _on_success closes the breaker, sc the new count
Recovered(st, sc) == st = HALF_OPEN /\ sc >= success_threshold

\* a call that keeps the lock while func is awaited
lock_kept_while_awaiting(c) == c

\* the holder of the lock while func is awaited: the async with block of call
\* ends before the await, so nobody
lock_while_awaiting(c) == 0

\* an except branch that reports the open circuit instead of the failure
reraise_as_rejection(exc) == "CircuitBreakerError"

\* what the except branch of call raises after _on_failure: a bare raise, the
\* exception of func itself
reraise(exc) == exc

\* a success that leaves the failures of a probing breaker on the count
failure_count_kept_in_probe(st, fc) == IF st = HALF_OPEN THEN fc ELSE 0

\* the failure count _on_success leaves, whatever the state and the count
failure_count_on_success(st, fc) == 0

\* CircuitBreaker.call up to the await of func: the admission decision, made
\* under the lock; a caller that finds the lock held waits for it
call(c) ==
  /\ pc[c] = "idle"
  /\ lock = 0
  /\ IF state = OPEN
       THEN IF Rejects
              THEN /\ cb_event' = CbEvent("call", c, FALSE, "CircuitBreakerError")
                   /\ lock' = 0
                   /\ UNCHANGED <<state, success_count, pc, admitted_in, probe_streak>>
              ELSE /\ state' = HALF_OPEN
                   /\ success_count' = 0
                   /\ pc' = [pc EXCEPT ![c] = "running"]
                   /\ admitted_in' = [admitted_in EXCEPT ![c] = HALF_OPEN]
                   /\ cb_event' = CbEvent("call", c, TRUE, "none")
                   /\ lock' = lock_while_awaiting(c)
                   /\ probe_streak' = 0
       ELSE /\ pc' = [pc EXCEPT ![c] = "running"]
            /\ admitted_in' = [admitted_in EXCEPT ![c] = state]
            /\ cb_event' = CbEvent("call", c, TRUE, "none")
            /\ lock' = lock_while_awaiting(c)
            /\ UNCHANGED <<state, success_count, probe_streak>>
  /\ UNCHANGED <<cb_config, failure_count, opened_at, now, fail_streak>>
  /\ UNCHANGED <<saga_vars, reg_vars, ord_vars>>

\* func raised: _on_failure under the lock, then the exception is re-raised to the caller
_on_failure(c) ==
  /\ pc[c] = "running"
  /\ lock = 0
  /\ lock' = 0
  /\ failure_count' = failure_count + 1
  /\ success_count' = 0
  /\ IF Trips(state, failure_count + 1)
       THEN state' = OPEN /\ opened_at' = now
       ELSE UNCHANGED <<state, opened_at>>
  /\ pc' = [pc EXCEPT ![c] = "idle"]
  /\ admitted_in' = [admitted_in EXCEPT ![c] = "none"]
  /\ cb_event' = CbEvent("failure", c, FALSE, reraise("exc"))
  /\ fail_streak' = fail_streak + 1
  /\ probe_streak' = 0
  /\ UNCHANGED <<cb_config, now>>
  /\ UNCHANGED <<saga_vars, reg_vars, ord_vars>>

\* func returned: _on_success under the lock, then the result is returned to the caller
_on_success(c) ==
  /\ pc[c] = "running"
  /\ lock = 0
  /\ lock' = 0
  /\ failure_count' = failure_count_on_success(state, failure_count)
  /\ IF state = HALF_OPEN
       THEN /\ success_count' = success_count + 1
            /\ state' = IF Recovered(state, success_count + 1) THEN CLOSED ELSE state
       ELSE UNCHANGED <<state, success_count>>
  /\ pc' = [pc EXCEPT ![c] = "idle"]
  /\ admitted_in' = [admitted_in EXCEPT ![c] = "none"]
  /\ cb_event' = CbEvent("success", c, FALSE, "none")
  /\ fail_streak' = 0
  /\ probe_streak' = IF state = HALF_OPEN THEN probe_streak + 1 ELSE 0
  /\ UNCHANGED <<cb_config, opened_at, now>>
  /\ UNCHANGED <<saga_vars, reg_vars, ord_vars>>

\* the monotonic clock advances
Tick ==
  /\ now < MaxTime
  /\ now' = now + 1
  /\ cb_event' = CbEvent("tick", 0, FALSE, "none")
  /\ UNCHANGED <<cb_config, state, failure_count, success_count, opened_at,
                 lock, pc, admitted_in, fail_streak, probe_streak>>
  /\ UNCHANGED <<saga_vars, reg_vars, ord_vars>>

NextBreaker ==
  \/ \E c \in Callers : call(c)
  \/ \E c \in Callers : _on_failure(c)
  \/ \E c \in Callers : _on_success(c)
  \/ Tick

\* ---------------------------------------------------------------- saga
\* bounds: the sagas created, the advance_saga coroutines that may be
\* suspended in a publish at once, and the create_saga and advance_saga calls
\* that change the store in one behaviour
MaxSagas == 2
NHandlers == 2
MaxCalls == 4

RESERVE_INVENTORY == "reserve_inventory"
CHARGE_PAYMENT == "charge_payment"
CONFIRM_ORDER == "confirm_order"
SagaStep == {RESERVE_INVENTORY, CHARGE_PAYMENT, CONFIRM_ORDER}

PENDING == "pending"
RUNNING == "running"
COMPLETED == "completed"
FAILED == "failed"
COMPENSATING == "compensating"
COMPENSATED == "compensated"
SagaStatus == {PENDING, RUNNING, COMPLETED, FAILED, COMPENSATING, COMPENSATED}

\* the saga identifiers a caller may name, known to the store or not
SagaIds == 1..MaxSagas

\* the (order_id, user_id, items) that create_saga is called with
CreateArgs == { <<"O1", 1, <<"sku-A">>>>, <<"O2", 2, <<"sku-B">>>> }

SagaEvent(op, sid, success, returned, raised, at, sent) ==
  [op |-> op, saga_id |-> sid, success |-> success, returned |-> returned,
   raised |-> raised, at |-> at, sent |-> sent]

saga_init ==
  /\ saga_store = <<>>
  /\ published = <<>>
  /\ suspended = {}
  /\ saga_event = SagaEvent("init", 0, FALSE, FALSE, FALSE, 0, <<>>)
  /\ calls = 0

RECURSIVE Reverse(_)
Reverse(q) == IF q = <<>> THEN <<>> ELSE Append(Reverse(Tail(q)), Head(q))

Succeeded(r) == r.success

\* a generator that hands out the same token again
uuid4_repeated(store) == 1

\* str(uuid.uuid4()): a token no stored saga has, here the next number
uuid4(store) == Len(store) + 1

\* _saga_store[saga_id] = saga: a new key, or a new value for an old one
store_put(store, saga_id, saga) ==
  [k \in DOMAIN store \cup {saga_id} |-> IF k = saga_id THEN saga ELSE store[k]]

\* create_saga
create_saga(order_id, user_id, items) ==
  /\ Len(saga_store) < MaxSagas
  /\ calls < MaxCalls
  /\ calls' = calls + 1
  /\ LET saga_id == uuid4(saga_store)
     IN /\ saga_store' = store_put(saga_store, saga_id,
             [saga_id |-> saga_id, order_id |-> order_id,
              user_id |-> user_id, items |-> items, status |-> PENDING,
              steps |-> <<>>, compensations |-> <<>>])
        /\ saga_event' = SagaEvent("create_saga", saga_id, FALSE, TRUE,
                                   FALSE, 0, <<>>)
  /\ UNCHANGED <<published, suspended>>
  /\ UNCHANGED <<cb_vars, reg_vars, ord_vars>>

\* a set that takes the step of every record, failed ones too
completed_set_all(steps) == { steps[i].step : i \in DOMAIN steps }

\* {s["step"] for s in saga["steps"] if s["success"]}
completed_set(steps) == { steps[i].step : i \in {j \in DOMAIN steps : steps[j].success} }

\* a check that is satisfied by any one required step
status_after_success_any(steps) ==
  IF SagaStep \cap completed_set(steps) # {} THEN COMPLETED ELSE RUNNING

\* the status advance_saga sets after recording a successful step
status_after_success(steps) ==
  IF SagaStep \subseteq completed_set(steps) THEN COMPLETED ELSE RUNNING

\* [s["step"] for s in saga["steps"] if s["success"]]
completed_list(steps) ==
  LET ok == SelectSeq(steps, Succeeded)
  IN [i \in DOMAIN ok |-> ok[i].step]

\* a traversal in append order
traversal_forward(steps) == completed_list(steps)

\* reversed(completed_steps): the order _compensate visits the steps in
traversal(steps) == Reverse(completed_list(steps))

\* the routing key and payload _compensate publishes for a step
compensation(saga, step) ==
  IF step = RESERVE_INVENTORY
    THEN [routing_key |-> "inventory.release",
          payload |-> [order_id |-> saga.order_id, items |-> saga.items]]
    ELSE [routing_key |-> "payment.refund",
          payload |-> [order_id |-> saga.order_id, user_id |-> saga.user_id]]

\* a loop in which every visited step publishes something
Publishes_all(step) == step \in SagaStep

\* the steps whose branch in _compensate publishes
Publishes(step) == step \in {RESERVE_INVENTORY, CHARGE_PAYMENT}

\* the loop runs on, without suspending, over steps that publish nothing
RECURSIVE skip(_)
skip(todo) ==
  IF todo = <<>> \/ Publishes(Head(todo)) THEN todo ELSE skip(Tail(todo))

\* _publish: the message reaches the exchange iff the broker is up; every
\* Exception is caught and logged inside _publish
_publish(msg, broker_up) ==
  [accepted |-> IF broker_up THEN <<msg>> ELSE <<>>, raised |-> FALSE]

\* whether an exception of the publish leaves _compensate: the try/except
\* Exception around each step catches and logs it
escapes(r) == FALSE

\* a loop that gives up at the first publish that did not go through
rest_stop(todo, r) == IF r.accepted = <<>> THEN <<>> ELSE skip(Tail(todo))

\* what is left of the loop after the publish for Head(todo) came back with r:
\* the loop goes on to the next step either way
rest(todo, r) == skip(Tail(todo))

\* a compensation that marks the saga failed when it ends
status_failed_after_compensate == FAILED

\* saga["status"] = SagaStatus.COMPENSATED, the last statement of _compensate
status_after_compensate == COMPENSATED

\* _compensate from a point where it is not suspended, with `todo` left to
\* visit: it suspends in the publish for the next step that has one, or it
\* ends, sets COMPENSATED and advance_saga returns
run_compensate(op, sid, store, others, todo, at, sent) ==
  IF todo = <<>>
    THEN /\ saga_store' = [store EXCEPT ![sid].status = status_after_compensate]
         /\ suspended' = others
         /\ saga_event' = SagaEvent(op, sid, FALSE, TRUE, FALSE, at, sent)
    ELSE /\ saga_store' = store
         /\ suspended' = others \cup
              {[saga_id |-> sid, todo |-> todo, at |-> at, sent |-> sent]}
         /\ saga_event' = SagaEvent(op, sid, FALSE, FALSE, FALSE, at, sent)

\* a lookup that stores a blank saga under an identifier it does not find
store_after_unknown_created(store, saga_id) ==
  Append(store, [saga_id |-> Len(store) + 1, order_id |-> "", user_id |-> 0,
                 items |-> <<>>, status |-> PENDING, steps |-> <<>>,
                 compensations |-> <<>>])

\* the store after advance_saga found no saga under saga_id: a warning is
\* logged and the call returns
store_after_unknown(store, saga_id) == store

\* advance_saga, up to its first suspension point or its return
advance_saga(saga_id, step, success) ==
  /\ Cardinality(suspended) < NHandlers
  /\ IF saga_id \notin DOMAIN saga_store
       THEN /\ saga_event' = SagaEvent("advance_saga", saga_id, success, TRUE,
                                       FALSE, 0, <<>>)
            /\ saga_store' = store_after_unknown(saga_store, saga_id)
            /\ UNCHANGED <<published, suspended, calls>>
       ELSE /\ calls < MaxCalls
            /\ calls' = calls + 1
            /\ LET steps == Append(saga_store[saga_id].steps,
                                   [step |-> step, success |-> success])
                   appended == [saga_store EXCEPT ![saga_id].steps = steps]
               IN IF ~success
                    THEN /\ run_compensate("advance_saga", saga_id,
                              [appended EXCEPT ![saga_id].status = COMPENSATING],
                              suspended, skip(traversal(steps)), Len(steps), <<>>)
                         /\ UNCHANGED published
                    ELSE /\ saga_store' = [appended EXCEPT ![saga_id].status =
                                             status_after_success(steps)]
                         /\ saga_event' = SagaEvent("advance_saga", saga_id, TRUE,
                                                    TRUE, FALSE, Len(steps), <<>>)
                         /\ UNCHANGED <<published, suspended>>
  /\ UNCHANGED <<cb_vars, reg_vars, ord_vars>>

\* the publish a _compensate is suspended in comes back, and _compensate runs
\* on to its next suspension point or to its end
_compensate(f, broker_up) ==
  /\ f \in suspended
  /\ UNCHANGED calls
  /\ LET saga == saga_store[f.saga_id]
         msg == compensation(saga, Head(f.todo))
         r == _publish(msg, broker_up)
         sent == Append(f.sent, msg.routing_key)
     IN /\ published' = published \o
             [i \in DOMAIN r.accepted |->
                [routing_key |-> r.accepted[i].routing_key,
                 payload |-> r.accepted[i].payload,
                 saga_id |-> f.saga_id]]
        /\ IF r.raised /\ escapes(r)
             THEN /\ suspended' = suspended \ {f}
                  /\ saga_event' = SagaEvent("_compensate", f.saga_id, FALSE,
                                             TRUE, TRUE, f.at, sent)
                  /\ UNCHANGED saga_store
             ELSE run_compensate("_compensate", f.saga_id, saga_store,
                                 suspended \ {f}, rest(f.todo, r), f.at, sent)
  /\ UNCHANGED <<cb_vars, reg_vars, ord_vars>>

NextCoordinator ==
  \/ \E a \in CreateArgs : create_saga(a[1], a[2], a[3])
  \/ \E i \in SagaIds, st \in SagaStep, ok \in BOOLEAN : advance_saga(i, st, ok)
  \/ \E f \in suspended, up \in BOOLEAN : _compensate(f, up)

\* ------------------------------------------------------------ registry
\* get_breaker calls explored
MaxGets == 3

\* the keyword defaults of CircuitBreaker.__init__
DefaultFailureThreshold == 5
DefaultRecoveryTimeout == 30
DefaultSuccessThreshold == 2

\* the dependency names breakers are asked for
Services == {"users", "orders"}

\* the keyword arguments a caller passes; None stands for a keyword left out
BreakerKwargs ==
  { [failure_threshold |-> None, recovery_timeout |-> None, success_threshold |-> None],
    [failure_threshold |-> 3, recovery_timeout |-> None, success_threshold |-> None],
    [failure_threshold |-> 1, recovery_timeout |-> 10, success_threshold |-> 1] }

RegEvent(service, kwargs, present, returned) ==
  [op |-> "get_breaker", service |-> service, kwargs |-> kwargs,
   present |-> present, returned |-> returned]

registry_init ==
  /\ _registry = << >>
  /\ instances = 0
  /\ reg_event = [op |-> "init"]
  /\ gets = 0

\* a keyword argument, or the default of the parameter when it is left out
keyword(v, default) == IF v = None THEN default ELSE v

\* CircuitBreaker(service, **kwargs): the id-th object constructed
CircuitBreaker(id, service, kwargs) ==
  [id |-> id, name |-> service,
   failure_threshold |-> keyword(kwargs.failure_threshold, DefaultFailureThreshold),
   recovery_timeout |-> keyword(kwargs.recovery_timeout, DefaultRecoveryTimeout),
   success_threshold |-> keyword(kwargs.success_threshold, DefaultSuccessThreshold)]

never_registered(reg, service) == TRUE

\* service not in _registry
not_registered(reg, service) == service \notin DOMAIN reg

\* get_breaker is a plain function: it has no suspension point, so the event
\* loop runs the test, the construction, the insertion and the return as one
\* step however its callers interleave
get_breaker(service, kwargs) ==
  /\ gets < MaxGets
  /\ gets' = gets + 1
  /\ IF not_registered(_registry, service)
     THEN /\ instances' = instances + 1
          /\ _registry' = [n \in DOMAIN _registry \cup {service} |->
                             IF n = service
                             THEN CircuitBreaker(instances + 1, service, kwargs)
                             ELSE _registry[n]]
     ELSE UNCHANGED <<_registry, instances>>
  /\ reg_event' = RegEvent(service, kwargs, service \in DOMAIN _registry,
                           _registry'[service])
  /\ UNCHANGED <<cb_vars, saga_vars, ord_vars>>

NextGetBreaker ==
  \E service \in Services, kwargs \in BreakerKwargs : get_breaker(service, kwargs)

\* -------------------------------------------------------------- orders
\* create_order requests received in one behaviour
MaxOrders == 2

\* the status code of the route decorator
HTTP_201_CREATED == 201

\* the authenticated users (user["uid"]) and the request bodies
Uids == {1, 2}
OrderBodies ==
  { << [sku |-> "sku-A", quantity |-> 2, unit_price_cents |-> 5] >>,
    << [sku |-> "sku-A", quantity |-> 1, unit_price_cents |-> 5],
       [sku |-> "sku-B", quantity |-> 1, unit_price_cents |-> 3] >> }

\* sum(i.quantity * i.unit_price_cents for i in body.items)
RECURSIVE total_cents(_)
total_cents(items) ==
  IF items = <<>> THEN 0
  ELSE Head(items).quantity * Head(items).unit_price_cents + total_cents(Tail(items))

\* OrderModel(...), the row create_order builds; id stands for str(uuid4())
OrderModel(id, uid, items) ==
  [id |-> id, user_id |-> uid, status |-> "pending",
   total_cents |-> total_cents(items), items |-> items]

\* the 201 response create_order returns
OrderResponse(order) ==
  [status_code |-> HTTP_201_CREATED,
   body |-> [id |-> order.id, user_id |-> order.user_id, status |-> order.status,
             total_cents |-> order.total_cents, items |-> order.items]]

\* the response to a request whose handler raised: the framework answers 500
ServerError == [status_code |-> 500, body |-> "error"]

\* no response yet: the handler is suspended
NoResponse == [status_code |-> 0, body |-> "none"]

\* the payload of the order.created event
order_created(order) ==
  [event_type |-> "order.created", order_id |-> order.id, user_id |-> order.user_id,
   total_cents |-> order.total_cents, items |-> order.items]

OrderEvent(op, order, broker_up, response) ==
  [op |-> op, order |-> order, broker_up |-> broker_up, response |-> response]

orders_init ==
  /\ orders_db = {}
  /\ order_exchange = <<>>
  /\ requests = {}
  /\ order_event = [op |-> "init"]
  /\ order_seq = 0

\* a publish whose failure is raised to the caller
_publish_event_raising(msg, broker_up) ==
  [accepted |-> IF broker_up THEN <<msg>> ELSE <<>>, raised |-> ~broker_up]

\* _publish_event: the message reaches the exchange iff the broker is up;
\* every Exception is caught and logged, nothing is raised to the caller
_publish_event(msg, broker_up) ==
  [accepted |-> IF broker_up THEN <<msg>> ELSE <<>>, raised |-> FALSE]

\* create_order up to await db.commit(): the order is built and added to the
\* session
create_order(uid, items) ==
  /\ order_seq < MaxOrders
  /\ order_seq' = order_seq + 1
  /\ LET order == OrderModel(order_seq + 1, uid, items)
     IN /\ requests' = requests \cup {[order |-> order, at |-> "commit"]}
        /\ order_event' = OrderEvent("create_order", order, TRUE, NoResponse)
  /\ UNCHANGED <<orders_db, order_exchange>>
  /\ UNCHANGED <<cb_vars, saga_vars, reg_vars>>

\* await db.commit() comes back: the row is stored and the handler goes on to
\* await _publish_event, or the commit raised and the exception leaves the
\* handler
commit(f, ok) ==
  /\ f \in requests
  /\ f.at = "commit"
  /\ IF ok
       THEN /\ orders_db' = orders_db \cup {f.order}
            /\ requests' = (requests \ {f}) \cup {[order |-> f.order, at |-> "publish"]}
            /\ order_event' = OrderEvent("commit", f.order, TRUE, NoResponse)
       ELSE /\ requests' = requests \ {f}
            /\ order_event' = OrderEvent("commit", f.order, TRUE, ServerError)
            /\ UNCHANGED orders_db
  /\ UNCHANGED <<order_exchange, order_seq>>
  /\ UNCHANGED <<cb_vars, saga_vars, reg_vars>>

\* await _publish_event(...) comes back and create_order returns its response
create_order_return(f, broker_up) ==
  /\ f \in requests
  /\ f.at = "publish"
  /\ LET r == _publish_event(order_created(f.order), broker_up)
     IN /\ order_exchange' = order_exchange \o r.accepted
        /\ order_event' = OrderEvent("return", f.order, broker_up,
                                     IF r.raised THEN ServerError
                                     ELSE OrderResponse(f.order))
  /\ requests' = requests \ {f}
  /\ UNCHANGED <<orders_db, order_seq>>
  /\ UNCHANGED <<cb_vars, saga_vars, reg_vars>>

NextOrders ==
  \/ \E uid \in Uids, items \in OrderBodies : create_order(uid, items)
  \/ \E f \in requests, ok \in BOOLEAN : commit(f, ok)
  \/ \E f \in requests, up \in BOOLEAN : create_order_return(f, up)

\* -------------------------------------------------------- specifications
vars == <<cb_vars, saga_vars, reg_vars, ord_vars>>

\* the breaker on its own: callers, outcomes and the clock
InitCB == CircuitBreaker_init /\ saga_init /\ registry_init /\ orders_init
NextCB == NextBreaker
SpecCB == InitCB /\ [][NextCB]_vars

\* the saga coordinator on its own, beside one untouched breaker
InitSaga ==
  /\ saga_init
  /\ registry_init
  /\ orders_init
  /\ CircuitBreaker_init
  /\ failure_threshold = 1 /\ recovery_timeout = 1 /\ success_threshold = 1
NextSaga == NextCoordinator
SpecSaga == InitSaga /\ [][NextSaga]_vars

\* the breaker from the states in which it has just opened, when the operation
\* no longer fails: failure_threshold failures in a row of a Closed breaker,
\* the last one by caller f while the clock read t, with the operations of
\* other callers, admitted before it opened, possibly still in flight.  The
\* clock of the model stops at MaxTime, so the breaker opens early enough for
\* the longest cooldown to elapse.
InitRecovery ==
  /\ failure_threshold \in 1..MaxFailureThreshold
  /\ recovery_timeout \in 1..MaxRecoveryTimeout
  /\ success_threshold \in 1..MaxSuccessThreshold
  /\ state = OPEN
  /\ failure_count = failure_threshold
  /\ success_count = 0
  /\ lock = 0
  /\ now \in 0..(MaxTime - MaxRecoveryTimeout)
  /\ opened_at = now
  /\ \E f \in Callers :
       /\ pc \in [Callers -> {"idle", "running"}]
       /\ pc[f] = "idle"
       /\ admitted_in = [c \in Callers |-> IF pc[c] = "running" THEN CLOSED ELSE "none"]
       /\ cb_event = CbEvent("failure", f, FALSE, reraise("exc"))
  /\ fail_streak = failure_threshold
  /\ probe_streak = 0
  /\ saga_init
  /\ registry_init
  /\ orders_init

\* every operation that is invoked succeeds
NextRecovery ==
  \/ \E c \in Callers : call(c)
  \/ \E c \in Callers : _on_success(c)
  \/ Tick

\* callers keep calling, operations keep returning, the clock keeps running
FairRecovery ==
  /\ \A c \in Callers : WF_vars(call(c)) /\ WF_vars(_on_success(c))
  /\ WF_vars(Tick)

SpecRecovery == InitRecovery /\ [][NextRecovery]_vars /\ FairRecovery

\* the breaker registry on its own, beside one untouched breaker and an
\* empty saga store
InitRegistry ==
  /\ registry_init
  /\ orders_init
  /\ saga_init
  /\ CircuitBreaker_init
  /\ failure_threshold = 1 /\ recovery_timeout = 1 /\ success_threshold = 1
NextRegistry == NextGetBreaker
SpecRegistry == InitRegistry /\ [][NextRegistry]_vars

\* the orders service on its own
InitOrders ==
  /\ orders_init
  /\ registry_init
  /\ saga_init
  /\ CircuitBreaker_init
  /\ failure_threshold = 1 /\ recovery_timeout = 1 /\ success_threshold = 1
NextOrdersService == NextOrders
SpecOrders == InitOrders /\ [][NextOrdersService]_vars

\* store-changing calls explored after a saga has completed
MaxCallsAfterCompleted == 2

\* the step logs of three advance_saga(success=true) calls, one per required
\* step, in any order
CompletedLogs ==
  { << [step |-> a, success |-> TRUE], [step |-> b, success |-> TRUE],
       [step |-> c, success |-> TRUE] >> :
    <<a, b, c>> \in { t \in SagaStep \X SagaStep \X SagaStep :
                        t[1] # t[2] /\ t[1] # t[3] /\ t[2] # t[3] } }

\* the saga coordinator from the states that create_saga and three successful
\* advance_saga calls, one per required step, leave behind
InitSagaCompleted ==
  /\ CircuitBreaker_init
  /\ registry_init
  /\ orders_init
  /\ failure_threshold = 1 /\ recovery_timeout = 1 /\ success_threshold = 1
  /\ \E a \in CreateArgs, log \in CompletedLogs :
       saga_store = << [saga_id |-> 1, order_id |-> a[1], user_id |-> a[2],
                        items |-> a[3], status |-> status_after_success(log),
                        steps |-> log, compensations |-> <<>>] >>
  /\ published = <<>>
  /\ suspended = {}
  /\ saga_event = SagaEvent("advance_saga", 1, TRUE, TRUE, FALSE, 3, <<>>)
  /\ calls = MaxCalls - MaxCallsAfterCompleted
SpecSagaCompleted == InitSagaCompleted /\ [][NextSaga]_vars

\* ------------------------------------------------------ breaker claims

\* C1: when a failure outcome applied to a Closed breaker makes the run of
\* consecutive failures reach failure_threshold, the breaker is Open right
\* after it with opened_at = now; and every call made while the breaker is
\* Open with less than recovery_timeout elapsed is rejected with
\* CircuitBreakerError, the wrapped operation not being invoked.
C1_OpensAtThresholdThenRejects ==
  [][ /\ ( /\ cb_event'.op = "failure"
           /\ state = CLOSED
           /\ fail_streak' >= failure_threshold )
         => (state' = OPEN /\ opened_at' = now)
      /\ ( /\ cb_event'.op = "call"
           /\ state = OPEN
           /\ now - opened_at < recovery_timeout )
         => ( /\ cb_event'.raised = "CircuitBreakerError"
              /\ ~cb_event'.invoked
              /\ pc' = pc ) ]_vars

\* C1 witness: with a threshold of at least 2, the failures opened the
\* breaker and the next call was rejected while it was cooling down.
C1_Witness ==
  /\ failure_threshold >= 2
  /\ fail_streak >= failure_threshold
  /\ state = OPEN
  /\ now - opened_at < recovery_timeout
  /\ cb_event.op = "call"
  /\ cb_event.raised = "CircuitBreakerError"

\* C2 (as claimed): at most one call that was let through in HalfOpen has its
\* operation in flight; every other caller is rejected meanwhile.
C2_SingleProbe ==
  Cardinality({c \in Callers : pc[c] = "running" /\ admitted_in[c] = HALF_OPEN}) <= 1

\* C3 (as claimed): a failure outcome applied while the breaker is HalfOpen
\* opens it at once, with opened_at = now and the probe progress discarded.
C3_HalfOpenFailureReopens ==
  [][ (cb_event'.op = "failure" /\ state = HALF_OPEN)
        => (state' = OPEN /\ opened_at' = now /\ success_count' = 0) ]_vars

\* C4: the breaker becomes Closed only from HalfOpen, only by a success
\* outcome that makes the run of consecutive HalfOpen successes equal to
\* success_threshold, and then failure_count is 0; a success outcome in
\* HalfOpen closes the breaker if the run has reached success_threshold and
\* leaves it HalfOpen otherwise.
C4_ClosesExactlyAtSuccessThreshold ==
  [][ /\ (state' = CLOSED /\ state # CLOSED)
         => ( /\ state = HALF_OPEN
              /\ cb_event'.op = "success"
              /\ probe_streak' = success_threshold
              /\ failure_count' = 0 )
      /\ (cb_event'.op = "success" /\ state = HALF_OPEN)
         => state' = (IF probe_streak' >= success_threshold
                        THEN CLOSED ELSE HALF_OPEN) ]_vars

\* C4 witness: with success_threshold 2, the second consecutive HalfOpen
\* success has just closed the breaker.
C4_Witness ==
  /\ success_threshold = 2
  /\ cb_event.op = "success"
  /\ probe_streak = 2
  /\ state = CLOSED
  /\ opened_at # None

\* C12: a failure outcome adds exactly one to failure_count, sets
\* success_count to 0 and reaches the caller of that admitted call as the
\* exception of the operation itself; CircuitBreakerError is raised only by
\* the admission decision of a call whose operation is not invoked.
C12_FailureRecordedAndReraised ==
  [][ /\ (cb_event'.op = "failure")
         => ( /\ pc[cb_event'.caller] = "running"
              /\ failure_count' = failure_count + 1
              /\ success_count' = 0
              /\ cb_event'.raised = "exc" )
      /\ (cb_event'.raised = "CircuitBreakerError")
         => ( /\ cb_event'.op = "call"
              /\ ~cb_event'.invoked
              /\ pc' = pc )
      /\ (cb_event'.op = "call" /\ cb_event'.raised = "none")
         => ( /\ cb_event'.invoked
              /\ pc'[cb_event'.caller] = "running" ) ]_vars

\* C12 witness: the failure that opened a breaker of threshold 2 has just
\* been re-raised to its caller as the operation's own exception.
C12_Witness ==
  /\ failure_threshold = 2
  /\ cb_event.op = "failure"
  /\ cb_event.raised = "exc"
  /\ failure_count = 2
  /\ success_count = 0
  /\ state = OPEN
  /\ opened_at = now

\* C17: a success outcome applied while the breaker is Closed or HalfOpen
\* leaves failure_count at 0.
C17_SuccessResetsFailureCount ==
  [][ (cb_event'.op = "success" /\ state \in {CLOSED, HALF_OPEN})
        => failure_count' = 0 ]_vars

\* C17 witness: the first probe of a breaker with both thresholds 2 has just
\* succeeded; the breaker is still HalfOpen and its failure count is 0.
C17_Witness ==
  /\ failure_threshold = 2
  /\ success_threshold = 2
  /\ cb_event.op = "success"
  /\ state = HALF_OPEN
  /\ success_count = 1
  /\ failure_count = 0

\* C18 (as claimed): success_count is 0 right after every failure outcome and
\* right after every step that takes the breaker out of HalfOpen, to Open or
\* to Closed.
C18_SuccessCountResets ==
  [][ /\ (cb_event'.op = "failure") => success_count' = 0
      /\ (state = HALF_OPEN /\ state' # HALF_OPEN) => success_count' = 0 ]_vars

\* C19: the lock is free in every state, so also while wrapped operations are
\* in flight; every idle caller can have its call decided at once and every
\* caller whose operation is in flight can have its outcome applied at once,
\* whatever the other callers are doing.
C19_LockNotHeldWhileAwaiting ==
  /\ lock = 0
  /\ \A c \in Callers :
       /\ pc[c] = "idle" => ENABLED call(c)
       /\ pc[c] = "running" => (ENABLED _on_success(c) /\ ENABLED _on_failure(c))

\* C19 witness: on a Closed breaker a call has just been admitted while the
\* operation of another admitted call was still in flight.
C19_Witness ==
  /\ state = CLOSED
  /\ cb_event.op = "call"
  /\ cb_event.invoked
  /\ \A c \in Callers : pc[c] = "running" /\ admitted_in[c] = CLOSED

\* C22: a call made while the breaker is Open and the cooldown has not
\* elapsed is rejected with CircuitBreakerError without invoking the
\* operation, and it leaves state, failure_count, success_count and opened_at
\* as they were.
C22_RejectionChangesNothing ==
  [][ (cb_event'.op = "call" /\ state = OPEN /\ elapsed < recovery_timeout)
        => ( /\ cb_event'.raised = "CircuitBreakerError"
             /\ ~cb_event'.invoked
             /\ state' = state
             /\ failure_count' = failure_count
             /\ success_count' = success_count
             /\ opened_at' = opened_at
             /\ pc' = pc ) ]_vars

\* C22 witness: a call has just been rejected by an Open breaker after time
\* has passed since it opened, while another caller's operation is in flight.
C22_Witness ==
  /\ cb_event.op = "call"
  /\ cb_event.raised = "CircuitBreakerError"
  /\ state = OPEN
  /\ now > opened_at
  /\ failure_count > 0
  /\ \E c \in Callers : pc[c] = "running"

\* C23: Closed implies failure_count < failure_threshold, HalfOpen implies
\* success_count < success_threshold, Open implies opened_at is set, and the
\* two counters are never negative.
C23_StateInvariants ==
  /\ state = CLOSED => failure_count < failure_threshold
  /\ state = HALF_OPEN => success_count < success_threshold
  /\ state = OPEN => opened_at # None
  /\ failure_count >= 0
  /\ success_count >= 0

\* C23 witness: a Closed breaker one failure short of its threshold, with
\* the operations of all callers in flight, after it has opened and recovered.
C23_Witness ==
  /\ state = CLOSED
  /\ opened_at # None
  /\ failure_count > 0
  /\ failure_count + 1 = failure_threshold
  /\ \A c \in Callers : pc[c] = "running"

\* the edges along which the state of a breaker may change
StateEdges ==
  { <<CLOSED, OPEN>>, <<OPEN, HALF_OPEN>>, <<HALF_OPEN, OPEN>>, <<HALF_OPEN, CLOSED>> }

\* C24: the state changes only along Closed -> Open, Open -> HalfOpen,
\* HalfOpen -> Open and HalfOpen -> Closed, and the outcome of an operation
\* that completes while the breaker is Open changes neither the state nor
\* opened_at.
C24_OnlyLegalEdges ==
  [][ /\ state' # state => <<state, state'>> \in StateEdges
      /\ (state = OPEN /\ cb_event'.op \in {"failure", "success"})
           => (state' = OPEN /\ opened_at' = opened_at) ]_vars

\* C24 witness: the operation of a call admitted while the breaker was Closed
\* has just failed while the breaker is Open, after time has passed since it
\* opened.
C24_Witness ==
  /\ state = OPEN
  /\ cb_event.op = "failure"
  /\ failure_count > failure_threshold
  /\ now > opened_at

\* C25 (as claimed): a success of a call that was admitted while the breaker
\* was Closed and that completes while it is HalfOpen leaves success_count
\* and the state as they were.
C25_OnlyProbesCountTowardRecovery ==
  [][ (cb_event'.op = "success" /\ state = HALF_OPEN
         /\ admitted_in[cb_event'.caller] = CLOSED)
        => (success_count' = success_count /\ state' = HALF_OPEN) ]_vars

\* C26: a breaker that is Open, whose operations all succeed from then on,
\* whose callers keep calling and whose clock keeps advancing, eventually
\* becomes Closed.
C26_RecoveryIsLive ==
  (state = OPEN) ~> (state = CLOSED)

\* C26 witness: the breaker has closed on the success that completed its
\* success_threshold, after the cooldown had elapsed.
C26_Witness ==
  /\ state = CLOSED
  /\ cb_event.op = "success"
  /\ success_count = success_threshold
  /\ success_threshold > 1
  /\ now >= opened_at + recovery_timeout

\* --------------------------------------------------------- saga claims

\* the event is a step of an advance_saga(success=false) call on a stored saga
FailingAdvance(e) ==
  /\ e.op \in {"advance_saga", "_compensate"}
  /\ ~e.success
  /\ e.saga_id \in DOMAIN saga_store

\* the step log the failing call saw: the records up to and with its own
LogAt(e) == SubSeq(saga_store[e.saga_id].steps, 1, e.at)

HasFailedStep(i) ==
  \E k \in DOMAIN saga_store[i].steps : ~saga_store[i].steps[k].success

HasSucceeded(i, st) ==
  \E k \in DOMAIN saga_store[i].steps :
    saga_store[i].steps[k].step = st /\ saga_store[i].steps[k].success

\* the routing keys of the compensations of a log, read from its last record
\* back to its first
RECURSIVE KeysBackwards(_, _)
KeysBackwards(log, n) ==
  IF n = 0 THEN <<>>
  ELSE (IF log[n].success /\ log[n].step = RESERVE_INVENTORY
          THEN <<"inventory.release">>
        ELSE IF log[n].success /\ log[n].step = CHARGE_PAYMENT
          THEN <<"payment.refund">>
        ELSE <<>>) \o KeysBackwards(log, n - 1)

Delivered(i, key) ==
  {k \in DOMAIN published :
     published[k].saga_id = i /\ published[k].routing_key = key}

\* C5 (as claimed): a saga with a failed step on record is never Running or
\* Completed again, whatever advance_saga calls follow or interleave.
C5_CompensationOneWay ==
  \A i \in DOMAIN saga_store :
    HasFailedStep(i) => saga_store[i].status \notin {RUNNING, COMPLETED}

\* C6: when an advance_saga(success=false) call on a stored saga ends, it has
\* returned without an error, the saga's status is Compensated, and it has
\* attempted one publish for every successful reserve_inventory or
\* charge_payment record it saw, whether or not the publishes went through;
\* until then it is suspended in a publish with steps left to visit.
C6_FailedAdvanceEndsCompensated ==
  FailingAdvance(saga_event) =>
    IF saga_event.returned
      THEN /\ ~saga_event.raised
           /\ saga_store[saga_event.saga_id].status = COMPENSATED
           /\ Len(saga_event.sent) =
                Cardinality({k \in DOMAIN LogAt(saga_event) :
                   /\ LogAt(saga_event)[k].success
                   /\ LogAt(saga_event)[k].step # CONFIRM_ORDER})
      ELSE \E f \in suspended :
             /\ f.saga_id = saga_event.saga_id
             /\ f.at = saga_event.at
             /\ f.todo # <<>>

\* C6 witness: a failing call has returned after two publish attempts of
\* which the first (the refund) failed and the second (the release) went
\* through.
C6_Witness ==
  /\ FailingAdvance(saga_event)
  /\ saga_event.returned
  /\ saga_event.sent = <<"payment.refund", "inventory.release">>
  /\ Len(published) = 1
  /\ published[1].routing_key = "inventory.release"
  /\ saga_store[saga_event.saga_id].status = COMPENSATED

\* C7: the routing keys an advance_saga(success=false) call has tried to
\* publish so far are a prefix of the compensations of the successful steps
\* recorded before the failure, latest record first, and all of them once the
\* call has returned.
C7_CompensatesInReverseOrder ==
  FailingAdvance(saga_event) =>
    LET want == KeysBackwards(LogAt(saga_event), saga_event.at)
        sent == saga_event.sent
    IN /\ Len(sent) <= Len(want)
       /\ sent = SubSeq(want, 1, Len(sent))
       /\ saga_event.returned => sent = want

\* C7 witness: charge_payment was recorded as successful before
\* reserve_inventory, and the call that recorded the failure has published
\* inventory.release before payment.refund.
C7_Witness ==
  /\ FailingAdvance(saga_event)
  /\ saga_event.returned
  /\ LogAt(saga_event)[1] = [step |-> CHARGE_PAYMENT, success |-> TRUE]
  /\ LogAt(saga_event)[2] = [step |-> RESERVE_INVENTORY, success |-> TRUE]
  /\ saga_event.sent = <<"inventory.release", "payment.refund">>
  /\ Len(published) = 2
  /\ published[1].routing_key = "inventory.release"
  /\ published[2].routing_key = "payment.refund"

\* C8 (as claimed): over the life of a saga the broker receives at most one
\* inventory.release and at most one payment.refund for it.
C8_AtMostOneCompensationPerStep ==
  \A i \in DOMAIN saga_store :
    \A key \in {"inventory.release", "payment.refund"} :
      Cardinality(Delivered(i, key)) <= 1

\* C9: a saga whose status is Completed has a successful record of each of
\* reserve_inventory, charge_payment and confirm_order.
C9_CompletedHasAllSteps ==
  \A i \in DOMAIN saga_store :
    saga_store[i].status = COMPLETED =>
      \A st \in SagaStep : HasSucceeded(i, st)

\* C9 witness: a saga is Completed.
C9_Witness ==
  \E i \in DOMAIN saga_store : saga_store[i].status = COMPLETED

\* C10: right after an advance_saga(success=true) call on a stored saga, the
\* saga is Completed if each of the three required steps has a successful
\* record and Running otherwise.
C10_SuccessSetsCompletedOrRunning ==
  ( /\ saga_event.op = "advance_saga"
    /\ saga_event.success
    /\ saga_event.saga_id \in DOMAIN saga_store )
  => saga_store[saga_event.saga_id].status =
       (IF \A st \in SagaStep : HasSucceeded(saga_event.saga_id, st)
          THEN COMPLETED ELSE RUNNING)

\* C10 witness: the three required steps were advanced with success, last
\* step first, and the third call has just set Completed.
C10_Witness ==
  /\ saga_event.op = "advance_saga"
  /\ saga_event.success
  /\ saga_event.saga_id \in DOMAIN saga_store
  /\ saga_store[saga_event.saga_id].steps =
       << [step |-> CONFIRM_ORDER, success |-> TRUE],
          [step |-> CHARGE_PAYMENT, success |-> TRUE],
          [step |-> RESERVE_INVENTORY, success |-> TRUE] >>
  /\ saga_store[saga_event.saga_id].status = COMPLETED

\* C11: every message the broker holds is an inventory.release of a saga with
\* a successful reserve_inventory record, carrying that saga's order_id and
\* items, or a payment.refund of a saga with a successful charge_payment
\* record, carrying that saga's order_id and user_id; and no _compensate is
\* ever suspended in a publish on account of confirm_order.
C11_CompensatesOnlySucceededSteps ==
  /\ \A k \in DOMAIN published :
       LET e == published[k]
           saga == saga_store[e.saga_id]
       IN \/ /\ e.routing_key = "inventory.release"
             /\ HasSucceeded(e.saga_id, RESERVE_INVENTORY)
             /\ e.payload = [order_id |-> saga.order_id, items |-> saga.items]
          \/ /\ e.routing_key = "payment.refund"
             /\ HasSucceeded(e.saga_id, CHARGE_PAYMENT)
             /\ e.payload = [order_id |-> saga.order_id, user_id |-> saga.user_id]
  /\ \A f \in suspended : Head(f.todo) \in {RESERVE_INVENTORY, CHARGE_PAYMENT}

\* C11 witness: reserve_inventory succeeded and charge_payment failed for
\* order O1; the saga is Compensated and the broker holds exactly one
\* message, the release of O1's items, and no refund.
C11_Witness ==
  \E i \in DOMAIN saga_store :
    /\ saga_store[i].steps = << [step |-> RESERVE_INVENTORY, success |-> TRUE],
                                [step |-> CHARGE_PAYMENT, success |-> FALSE] >>
    /\ saga_store[i].status = COMPENSATED
    /\ published = << [routing_key |-> "inventory.release",
                       payload |-> [order_id |-> "O1", items |-> <<"sku-A">>],
                       saga_id |-> i] >>

\* C13: an advance_saga call that names a saga the store does not hold
\* returns without an error and leaves the store, the broker and every
\* suspended compensation as they were.
C13_UnknownSagaIsNoOp ==
  [][ (saga_event'.op = "advance_saga" /\ saga_event'.saga_id \notin DOMAIN saga_store)
        => ( /\ saga_store' = saga_store
             /\ published' = published
             /\ suspended' = suspended
             /\ saga_event'.returned
             /\ ~saga_event'.raised ) ]_vars

\* C13 witness: advance_saga has just been called for an identifier the store
\* does not hold, while the store holds a saga with a step on record.
C13_Witness ==
  /\ saga_event.op = "advance_saga"
  /\ saga_event.saga_id \notin DOMAIN saga_store
  /\ saga_event.returned
  /\ DOMAIN saga_store # {}
  /\ \E i \in DOMAIN saga_store : saga_store[i].steps # <<>>

\* C15: create_saga stores, under an identifier no stored saga has, a saga
\* with that identifier, status Pending and an empty step log; the store
\* grows by exactly that entry and every saga stored before is unchanged.
C15_CreateStoresFreshPendingSaga ==
  [][ (saga_event'.op = "create_saga")
        => LET id == saga_event'.saga_id
           IN /\ id \notin DOMAIN saga_store
              /\ DOMAIN saga_store' = DOMAIN saga_store \cup {id}
              /\ saga_store'[id].saga_id = id
              /\ saga_store'[id].status = PENDING
              /\ saga_store'[id].steps = <<>>
              /\ \A i \in DOMAIN saga_store : saga_store'[i] = saga_store[i]
              /\ published' = published
              /\ suspended' = suspended ]_vars

\* C15 witness: a second saga has just been created, Pending and with an
\* empty log, beside a first one that has steps on record.
C15_Witness ==
  /\ saga_event.op = "create_saga"
  /\ saga_event.saga_id = 2
  /\ DOMAIN saga_store = {1, 2}
  /\ saga_store[1].steps # <<>>
  /\ saga_store[1].saga_id # saga_store[2].saga_id
  /\ saga_store[2].status = PENDING
  /\ saga_store[2].steps = <<>>

\* C16 (as claimed): no step changes the status of a saga that is Completed,
\* and no step starts a compensation for it.
C16_CompletedIsTerminal ==
  [][ \A i \in DOMAIN saga_store :
        saga_store[i].status = COMPLETED
          => ( /\ saga_store'[i].status = COMPLETED
               /\ \A k \in DOMAIN published' \ DOMAIN published :
                    published'[k].saga_id # i
               /\ \A f \in suspended' \ suspended : f.saga_id # i ) ]_vars

\* C20 (as claimed): the compensations list of a saga has one entry for each
\* compensating event that was emitted for it.
C20_CompensationsListed ==
  \A i \in DOMAIN saga_store :
    Len(saga_store[i].compensations) =
      Cardinality({k \in DOMAIN published : published[k].saga_id = i})

\* C14: get_breaker keeps one breaker per name.  A call for a name that is
\* not registered constructs one breaker with the keywords passed, or the
\* defaults for those left out, registers it and returns it; a call for a
\* registered name returns the registered breaker, identity and configuration
\* untouched, whatever keywords it passes.  No call touches another name's
\* breaker, and only one breaker is ever constructed per name.
C14_OneBreakerPerName ==
  [][ (gets' = gets + 1)
        => LET e == reg_event'
               s == e.service
           IN /\ e.returned = _registry'[s]
              /\ e.returned.name = s
              /\ \A n \in DOMAIN _registry : _registry'[n] = _registry[n]
              /\ DOMAIN _registry' = DOMAIN _registry \cup {s}
              /\ s \notin DOMAIN _registry
                   => /\ \A n \in DOMAIN _registry : _registry[n].id # e.returned.id
                      /\ e.returned.failure_threshold =
                           keyword(e.kwargs.failure_threshold, DefaultFailureThreshold)
                      /\ e.returned.recovery_timeout =
                           keyword(e.kwargs.recovery_timeout, DefaultRecoveryTimeout)
                      /\ e.returned.success_threshold =
                           keyword(e.kwargs.success_threshold, DefaultSuccessThreshold)
              /\ instances' = Cardinality(DOMAIN _registry') ]_vars

\* C14 witness: a later get_breaker call for a registered name passed keywords
\* that differ from the registered configuration and got the registered
\* breaker back, while another name is registered too.
C14_Witness ==
  /\ reg_event.op = "get_breaker"
  /\ reg_event.present
  /\ reg_event.returned = _registry[reg_event.service]
  /\ reg_event.returned.failure_threshold = DefaultFailureThreshold
  /\ reg_event.kwargs.failure_threshold \notin {None, DefaultFailureThreshold}
  /\ DOMAIN _registry = Services
  /\ instances = Cardinality(Services)

\* C27: no stored saga ever has status Failed: every status is Pending,
\* Running, Completed, Compensating or Compensated, and a saga has status
\* Compensating only while a compensation of it is suspended in a publish.
C27_NeverFailed ==
  \A i \in DOMAIN saga_store :
    /\ saga_store[i].status # FAILED
    /\ saga_store[i].status \in {PENDING, RUNNING, COMPLETED, COMPENSATING, COMPENSATED}
    /\ saga_store[i].status = COMPENSATING
         => \E f \in suspended : f.saga_id = i

\* C27 witness: a compensation that tried two publishes has just ended
\* Compensated although the broker took neither message.
C27_Witness ==
  /\ saga_event.op = "_compensate"
  /\ saga_event.returned
  /\ Len(saga_event.sent) = 2
  /\ saga_store[saga_event.saga_id].status = COMPENSATED
  /\ \A k \in DOMAIN published : published[k].saga_id # saga_event.saga_id

\* --------------------------------------------------------- orders claims

\* C21: create_order publishes order.created only for an order that is
\* already committed, and when the publish comes back, whether or not the
\* broker took the message, the order is still stored and the request is
\* answered 201 with the created order.
C21_PublishFailureKeepsOrder ==
  [][ /\ \A f \in requests' : f.at = "publish" => f.order \in orders_db'
      /\ \A k \in DOMAIN order_exchange' :
           \E o \in orders_db' : order_exchange'[k] = order_created(o)
      /\ orders_db \subseteq orders_db'
      /\ (order_event'.op = "return" /\ requests' # requests)
           => ( /\ order_event'.order \in orders_db
                /\ orders_db' = orders_db
                /\ order_event'.response = OrderResponse(order_event'.order) ) ]_vars

\* C21 witness: a create_order request has just been answered 201 while the
\* broker was down: its order is stored, no order.created message of it was
\* accepted, and another request is still in flight.
C21_Witness ==
  /\ order_event.op = "return"
  /\ ~order_event.broker_up
  /\ order_event.response.status_code = HTTP_201_CREATED
  /\ order_event.order \in orders_db
  /\ \A k \in DOMAIN order_exchange : order_exchange[k].order_id # order_event.order.id
  /\ requests # {}
====
